---- MODULE Spec2Model ----
(***************************************************************************)
(* Model of 11.execvpe/execvpe.c: execvpe(file, argv, envp), which swaps   *)
(* the process-wide environ pointer around a call of execvp, and main,     *)
(* which forks a child that calls execvpe("env", args, new_envp) while the *)
(* parent waits for the child and reports its status.                      *)
(*                                                                         *)
(* Two programs are modelled over the same statements of execvpe:          *)
(*   Spec         main() as written (lines 26-73), parent and child;       *)
(*   FairSpec     Spec with the scheduling of two live processes;          *)
(*   LauncherSpec a single process that calls execvpe up to MaxCalls times *)
(*                with program names, argument lists and replacement       *)
(*                environments drawn from small sets.                      *)
(* Every process has its own copy of every variable (fork copies the       *)
(* address space); the kernel-side facts are the wait status of a          *)
(* terminated process and the image a successful exec installs.            *)
(***************************************************************************)
EXTENDS Integers, Sequences, FiniteSets

\* --------------------------------------------------------------- bounds
\* Number of execvpe calls the LauncherSpec driver makes at most.
MaxCalls == 3

\* ------------------------------------------------------------ processes
Procs == {"parent", "child"}

\* ------------------------------------------------- memory: environments
\* A binding of environ is a pointer (char **); Mem gives the NULL-terminated
\* array of strings each pointer addresses.  "env_login_copy" holds the same
\* strings as "env_login" at another address.
OrigEnvs == {"env_login", "env_cron"}

Addrs == OrigEnvs \cup {"new_envp", "envp_opt", "envp_empty", "env_login_copy"}

NullAddr == "null"

Mem ==
  [a \in Addrs |->
     CASE a = "env_login"      -> <<"HOME=/root", "PATH=/usr/local/bin:/usr/bin">>
       [] a = "env_login_copy" -> <<"HOME=/root", "PATH=/usr/local/bin:/usr/bin">>
       [] a = "env_cron"       -> <<"SHELL=/bin/sh">>
       [] a = "new_envp"       -> <<"PATH=/bin:/usr/bin">>
       [] a = "envp_opt"       -> <<"PATH=/opt/bin", "LANG=C">>
       [] a = "envp_empty"     -> << >>]

\* char *args[] = {"env", NULL};  char *new_envp[] = {"PATH=/bin:/usr/bin", NULL};
args == <<"env">>

new_envp == "new_envp"

\* Inputs of the LauncherSpec driver.
Files == {"env", "nosuchprog"}

Argvs == {<<"env">>, <<"nosuchprog", "-x">>}

Envps == {"new_envp", "envp_opt", "envp_empty", "env_login_copy", "env_login"}

\* Which program names the search path resolves to an executable file.
PathChoices == {{}, {"env"}, {"env", "nosuchprog"}}

\* ------------------------------------------------------- process images
MainImage == [prog |-> "main", argv |-> << >>, env |-> << >>]

NoImage == [prog |-> "none", argv |-> << >>, env |-> << >>]

\* --------------------------------------------------------- wait status
\* <wait.h>: the status word wait() stores for a terminated child.
W_EXITCODE(ret, sig) == (ret % 256) * 256 + sig

WTERMSIG(s) == s % 128

WIFEXITED(s) == WTERMSIG(s) = 0

WEXITSTATUS(s) == (s \div 256) % 256

\* What a launched program may do: exit with a code, or die from a signal.
ImageExitCodes == {0, 1, 127, 255}

Signals == {9, 11}

VARIABLES
  pc,             \* [Procs -> statement the process is at]
  environ,        \* [Procs -> Addrs]: extern char **environ of each process
  file, argv, envp, \* [Procs -> ...]: the parameters of the running execvpe call
  old_environ,    \* [Procs -> Addrs]: execvpe's local (line 11)
  result,         \* [Procs -> << >> or <<r>>]: execvpe's local (line 17)
  retval,         \* [Procs -> << >> or <<r>>]: the value execvpe returned
  pid,            \* [Procs -> << >> or <<p>>]: main's local pid (line 36)
  wait_result,    \* [Procs -> << >> or <<r>>]: main's local (line 55)
  status,         \* [Procs -> << >> or <<s>>]: main's local status (line 54)
  image,          \* [Procs -> image]: the program image the process runs
  wstatus,        \* [Procs -> << >> or <<s>>]: wait status of a terminated process
  exitCode,       \* [Procs -> << >> or <<c>>]: the code the process exited with
  reaped,         \* the child has been collected by wait
  out, err,       \* [Procs -> Seq]: what the process wrote to stdout / stderr
  onPath,         \* the program names the search path resolves
  sigchldIgnored, \* SIGCHLD is inherited as SIG_IGN: wait() ends in ECHILD
  nFork, nExec, nWait, nCalls, \* how often each primitive has been invoked
  env0,           \* the binding of environ when the program started
  callerEnv,      \* [Procs -> Addrs]: the binding when execvpe was entered
  execEnv         \* [Procs -> Addrs]: the binding when execvp was invoked

vars == <<pc, environ, file, argv, envp, old_environ, result, retval, pid,
          wait_result, status, image, wstatus, exitCode, reaped, out, err, onPath,
          sigchldIgnored, nFork, nExec, nWait, nCalls, env0, callerEnv, execEnv>>

callVars == <<file, argv, envp>>

mainVars == <<pid, wait_result, status, reaped, nFork, nWait>>

kernelVars == <<image, wstatus, exitCode>>

ioVars == <<out, err>>

worldVars == <<onPath, sigchldIgnored, env0>>

\* The process ids fork may give the child.
ChildPids == {2, 4242}

\* ----------------------------------------------------------------- Init
InitCommon ==
  /\ file = [p \in Procs |-> ""]
  /\ argv = [p \in Procs |-> << >>]
  /\ envp = [p \in Procs |-> NullAddr]
  /\ old_environ = [p \in Procs |-> NullAddr]
  /\ result = [p \in Procs |-> << >>]
  /\ retval = [p \in Procs |-> << >>]
  /\ pid = [p \in Procs |-> << >>]
  /\ wait_result = [p \in Procs |-> << >>]
  /\ status = [p \in Procs |-> << >>]
  /\ image = [p \in Procs |-> IF p = "parent" THEN MainImage ELSE NoImage]
  /\ wstatus = [p \in Procs |-> << >>]
  /\ exitCode = [p \in Procs |-> << >>]
  /\ reaped = FALSE
  /\ out = [p \in Procs |-> << >>]
  /\ err = [p \in Procs |-> << >>]
  /\ onPath \in PathChoices
  /\ sigchldIgnored \in BOOLEAN
  /\ nFork = 0 /\ nExec = 0 /\ nWait = 0 /\ nCalls = 0
  /\ env0 \in OrigEnvs
  /\ environ = [p \in Procs |-> IF p = "parent" THEN env0 ELSE NullAddr]
  /\ callerEnv = [p \in Procs |-> NullAddr]
  /\ execEnv = [p \in Procs |-> NullAddr]

Init ==
  /\ InitCommon
  /\ pc = [p \in Procs |-> IF p = "parent" THEN "main" ELSE "none"]

\* --------------------------------------------------------------- execvpe
\* Variant of Save: the save is made from the replacement, as if it came after
\* the install.
SaveAfterInstall(p) ==
  /\ pc[p] = "save"
  /\ old_environ' = [old_environ EXCEPT ![p] = envp[p]]
  /\ pc' = [pc EXCEPT ![p] = "install"]
  /\ UNCHANGED <<environ, callVars, result, retval, mainVars, kernelVars, ioVars,
                 worldVars, nExec, nCalls, callerEnv, execEnv>>

\* line 11: char **old_environ = environ;
Save(p) ==
  /\ pc[p] = "save"
  /\ old_environ' = [old_environ EXCEPT ![p] = environ[p]]
  /\ pc' = [pc EXCEPT ![p] = "install"]
  /\ UNCHANGED <<environ, callVars, result, retval, mainVars, kernelVars, ioVars,
                 worldVars, nExec, nCalls, callerEnv, execEnv>>

\* Variant of Install: the replacement is never installed.
InstallSkipped(p) ==
  /\ pc[p] = "install"
  /\ pc' = [pc EXCEPT ![p] = "exec"]
  /\ UNCHANGED <<environ, callVars, old_environ, result, retval, mainVars, kernelVars,
                 ioVars, worldVars, nExec, nCalls, callerEnv, execEnv>>

\* line 14: environ = (char **)envp;
Install(p) ==
  /\ pc[p] = "install"
  /\ environ' = [environ EXCEPT ![p] = envp[p]]
  /\ pc' = [pc EXCEPT ![p] = "exec"]
  /\ UNCHANGED <<callVars, old_environ, result, retval, mainVars, kernelVars, ioVars,
                 worldVars, nExec, nCalls, callerEnv, execEnv>>

\* Variant of ExecOK: the program is started and control comes back with 0.
ExecOKReturns(p) ==
  /\ pc[p] = "exec"
  /\ file[p] \in onPath
  /\ nExec' = nExec + 1
  /\ execEnv' = [execEnv EXCEPT ![p] = environ[p]]
  /\ image' = [image EXCEPT ![p] =
                 [prog |-> file[p], argv |-> argv[p], env |-> Mem[environ[p]]]]
  /\ result' = [result EXCEPT ![p] = <<0>>]
  /\ pc' = [pc EXCEPT ![p] = "restore"]
  /\ UNCHANGED <<environ, callVars, old_environ, retval, mainVars, wstatus,
                 exitCode, ioVars, worldVars, nCalls, callerEnv>>

\* line 17, execvp succeeds: the image is replaced by the program found on the
\* search path, started with argv and with the strings environ addresses.
\* Nothing of the old image runs again.
ExecOK(p) ==
  /\ pc[p] = "exec"
  /\ file[p] \in onPath
  /\ nExec' = nExec + 1
  /\ execEnv' = [execEnv EXCEPT ![p] = environ[p]]
  /\ image' = [image EXCEPT ![p] =
                 [prog |-> file[p], argv |-> argv[p], env |-> Mem[environ[p]]]]
  /\ pc' = [pc EXCEPT ![p] = "image"]
  /\ UNCHANGED <<environ, callVars, old_environ, result, retval, mainVars, wstatus,
                 exitCode, ioVars, worldVars, nCalls, callerEnv>>

\* Variant of ExecFail: a failed attempt is tried again (at most MaxCalls times).
ExecFailRetry(p) ==
  /\ pc[p] = "exec"
  /\ nExec < MaxCalls
  /\ nExec' = nExec + 1
  /\ execEnv' = [execEnv EXCEPT ![p] = environ[p]]
  /\ result' = [result EXCEPT ![p] = <<-1>>]
  /\ pc' = [pc EXCEPT ![p] = "exec"]
  /\ UNCHANGED <<environ, callVars, old_environ, retval, mainVars, kernelVars,
                 ioVars, worldVars, nCalls, callerEnv>>

\* line 17, execvp fails (not on the path, or found and E2BIG / ENOMEM / EACCES):
\* int result = -1, and the next statement runs.
ExecFail(p) ==
  /\ pc[p] = "exec"
  /\ nExec' = nExec + 1
  /\ execEnv' = [execEnv EXCEPT ![p] = environ[p]]
  /\ result' = [result EXCEPT ![p] = <<-1>>]
  /\ pc' = [pc EXCEPT ![p] = "restore"]
  /\ UNCHANGED <<environ, callVars, old_environ, retval, mainVars, kernelVars,
                 ioVars, worldVars, nCalls, callerEnv>>

\* Variant of Restore: the saved binding is not put back.
RestoreSkipped(p) ==
  /\ pc[p] = "restore"
  /\ pc' = [pc EXCEPT ![p] = "return"]
  /\ UNCHANGED <<environ, callVars, old_environ, result, retval, mainVars, kernelVars,
                 ioVars, worldVars, nExec, nCalls, callerEnv, execEnv>>

\* line 20: environ = old_environ;
Restore(p) ==
  /\ pc[p] = "restore"
  /\ environ' = [environ EXCEPT ![p] = old_environ[p]]
  /\ pc' = [pc EXCEPT ![p] = "return"]
  /\ UNCHANGED <<callVars, old_environ, result, retval, mainVars, kernelVars, ioVars,
                 worldVars, nExec, nCalls, callerEnv, execEnv>>

\* line 23: return result;
Return(p) ==
  /\ pc[p] = "return"
  /\ retval' = [retval EXCEPT ![p] = result[p]]
  /\ pc' = [pc EXCEPT ![p] = "returned"]
  /\ UNCHANGED <<environ, callVars, old_environ, result, mainVars, kernelVars, ioVars,
                 worldVars, nExec, nCalls, callerEnv, execEnv>>

\* ------------------------------------------------- the launched program
\* The launched program calls exit(code) ...
ImageExit(p) ==
  /\ pc[p] = "image"
  /\ \E code \in ImageExitCodes :
       /\ wstatus' = [wstatus EXCEPT ![p] = <<W_EXITCODE(code, 0)>>]
       /\ exitCode' = [exitCode EXCEPT ![p] = <<code>>]
  /\ pc' = [pc EXCEPT ![p] = "terminated"]
  /\ UNCHANGED <<environ, callVars, old_environ, result, retval, mainVars, image,
                 ioVars, worldVars, nExec, nCalls, callerEnv, execEnv>>

\* ... or is terminated by a signal.
ImageKilled(p) ==
  /\ pc[p] = "image"
  /\ \E sig \in Signals :
       wstatus' = [wstatus EXCEPT ![p] = <<W_EXITCODE(0, sig)>>]
  /\ UNCHANGED exitCode
  /\ pc' = [pc EXCEPT ![p] = "terminated"]
  /\ UNCHANGED <<environ, callVars, old_environ, result, retval, mainVars, image,
                 ioVars, worldVars, nExec, nCalls, callerEnv, execEnv>>

\* ------------------------------------------------------------------ main
\* main returns code (or the program calls exit): the process terminates and
\* its wait status becomes available to its parent.
Exits(p, code) ==
  /\ pc' = [pc EXCEPT ![p] = "terminated"]
  /\ wstatus' = [wstatus EXCEPT ![p] = <<W_EXITCODE(code, 0)>>]
  /\ exitCode' = [exitCode EXCEPT ![p] = <<code>>]

Line(text) == [text |-> text, code |-> << >>]

\* execvpe is entered with (f, a, e): the parameters are bound.
Enter(p, f, a, e) ==
  /\ file' = [file EXCEPT ![p] = f]
  /\ argv' = [argv EXCEPT ![p] = a]
  /\ envp' = [envp EXCEPT ![p] = e]
  /\ callerEnv' = [callerEnv EXCEPT ![p] = environ[p]]
  /\ pc' = [pc EXCEPT ![p] = "save"]

\* lines 27-28: char* path = _PATH_DEFPATH; printf("%s\n", path);
PrintPath(p) ==
  /\ pc[p] = "main"
  /\ out' = [out EXCEPT ![p] = Append(@, Line("/usr/bin:/bin"))]
  /\ pc' = [pc EXCEPT ![p] = "fork"]
  /\ UNCHANGED <<environ, callVars, old_environ, result, retval, mainVars, kernelVars,
                 err, worldVars, nExec, nCalls, callerEnv, execEnv>>

\* line 36, fork succeeds: the child is a copy of the parent (its own environ,
\* its own locals), with pid = 0; the parent gets the child's process id.
ForkOK(p) ==
  /\ pc[p] = "fork"
  /\ p = "parent"
  /\ \E c \in ChildPids : pid' = [parent |-> <<c>>, child |-> <<0>>]
  /\ nFork' = nFork + 1
  /\ pc' = [pc EXCEPT !["parent"] = "switch", !["child"] = "switch"]
  /\ environ' = [environ EXCEPT !["child"] = environ["parent"]]
  /\ image' = [image EXCEPT !["child"] = image["parent"]]
  /\ UNCHANGED <<callVars, old_environ, result, retval, wait_result, status, reaped,
                 nWait, wstatus, exitCode, ioVars, worldVars, nExec, nCalls, callerEnv,
                 execEnv>>

\* line 36, fork fails: no child, pid = -1.
ForkFail(p) ==
  /\ pc[p] = "fork"
  /\ pid' = [pid EXCEPT ![p] = <<-1>>]
  /\ nFork' = nFork + 1
  /\ pc' = [pc EXCEPT ![p] = "switch"]
  /\ UNCHANGED <<environ, callVars, old_environ, result, retval, wait_result, status,
                 reaped, nWait, kernelVars, ioVars, worldVars, nExec, nCalls,
                 callerEnv, execEnv>>

\* Variant of SwitchTarget: every pid but -1 takes the child's branch.
SwitchNoDefault(v) ==
  IF v = -1 THEN "fork_failed" ELSE "call"

\* line 38: switch (pid) { case -1: ... case 0: ... default: ... }
SwitchTarget(v) ==
  IF v = -1 THEN "fork_failed" ELSE IF v = 0 THEN "call" ELSE "wait"

Switch(p) ==
  /\ pc[p] = "switch"
  /\ pc' = [pc EXCEPT ![p] = SwitchTarget(pid[p][1])]
  /\ UNCHANGED <<environ, callVars, old_environ, result, retval, mainVars, kernelVars,
                 ioVars, worldVars, nExec, nCalls, callerEnv, execEnv>>

\* Variant of ForkFailed: the return is missing and control falls into case 0.
ForkFailedFallsThrough(p) ==
  /\ pc[p] = "fork_failed"
  /\ err' = [err EXCEPT ![p] = Append(@, "Failed to fork")]
  /\ pc' = [pc EXCEPT ![p] = "call"]
  /\ UNCHANGED <<environ, callVars, old_environ, result, retval, mainVars, kernelVars,
                 out, worldVars, nExec, nCalls, callerEnv, execEnv>>

\* lines 41-42: perror("Failed to fork"); return 1;
ForkFailed(p) ==
  /\ pc[p] = "fork_failed"
  /\ err' = [err EXCEPT ![p] = Append(@, "Failed to fork")]
  /\ Exits(p, 1)
  /\ UNCHANGED <<environ, callVars, old_environ, result, retval, mainVars, image,
                 out, worldVars, nExec, nCalls, callerEnv, execEnv>>

\* line 46: execvpe("env", args, new_envp);
ChildCall(p) ==
  /\ pc[p] = "call"
  /\ Enter(p, "env", args, new_envp)
  /\ UNCHANGED <<environ, old_environ, result, retval, mainVars, kernelVars, ioVars,
                 worldVars, nExec, nCalls, execEnv>>

\* Variant of ExecFailed: the child returns 0 after the message.
ExecFailedReturnsZero(p) ==
  /\ pc[p] = "returned"
  /\ err' = [err EXCEPT ![p] = Append(@, "Failed to execute execvpe")]
  /\ Exits(p, 0)
  /\ UNCHANGED <<environ, callVars, old_environ, result, retval, mainVars, image,
                 out, worldVars, nExec, nCalls, callerEnv, execEnv>>

\* lines 49-50, reached when execvpe returned:
\* perror("Failed to execute execvpe"); return 1;
ExecFailed(p) ==
  /\ pc[p] = "returned"
  /\ err' = [err EXCEPT ![p] = Append(@, "Failed to execute execvpe")]
  /\ Exits(p, 1)
  /\ UNCHANGED <<environ, callVars, old_environ, result, retval, mainVars, image,
                 out, worldVars, nExec, nCalls, callerEnv, execEnv>>

\* Variant of WaitOK: the call does not block (as waitpid with WNOHANG); with
\* the child still running it returns with status 0.
WaitNoHang(p) ==
  /\ pc[p] = "wait"
  /\ p = "parent"
  /\ ~reaped /\ ~sigchldIgnored
  /\ status' = [status EXCEPT ![p] =
                  IF pc["child"] = "terminated" THEN wstatus["child"] ELSE <<0>>]
  /\ wait_result' = [wait_result EXCEPT ![p] = pid[p]]
  /\ reaped' = (pc["child"] = "terminated")
  /\ nWait' = nWait + 1
  /\ pc' = [pc EXCEPT ![p] = "check_wait"]
  /\ UNCHANGED <<environ, callVars, old_environ, result, retval, pid, nFork,
                 kernelVars, ioVars, worldVars, nExec, nCalls, callerEnv, execEnv>>

\* line 55, wait succeeds: it blocks until a child has terminated, stores that
\* child's status and returns its process id.
WaitOK(p) ==
  /\ pc[p] = "wait"
  /\ p = "parent"
  /\ pc["child"] = "terminated" /\ ~reaped /\ ~sigchldIgnored
  /\ status' = [status EXCEPT ![p] = wstatus["child"]]
  /\ wait_result' = [wait_result EXCEPT ![p] = pid[p]]
  /\ reaped' = TRUE
  /\ nWait' = nWait + 1
  /\ pc' = [pc EXCEPT ![p] = "check_wait"]
  /\ UNCHANGED <<environ, callVars, old_environ, result, retval, pid, nFork,
                 kernelVars, ioVars, worldVars, nExec, nCalls, callerEnv, execEnv>>

\* line 55, wait fails: with SIGCHLD ignored the terminated child leaves no
\* status, and wait returns -1 (ECHILD) once no child is left; a process
\* without children gets -1 at once.  status is not written.
WaitFail(p) ==
  /\ pc[p] = "wait"
  /\ \/ p = "parent" /\ pc["child"] = "terminated" /\ sigchldIgnored
     \/ p = "child"
  /\ wait_result' = [wait_result EXCEPT ![p] = <<-1>>]
  /\ nWait' = nWait + 1
  /\ pc' = [pc EXCEPT ![p] = "check_wait"]
  /\ UNCHANGED <<environ, callVars, old_environ, result, retval, pid, status, reaped,
                 nFork, kernelVars, ioVars, worldVars, nExec, nCalls, callerEnv,
                 execEnv>>

\* lines 57-61: if (wait_result == -1) { perror(...); return 1; }
WaitFailed(p) ==
  /\ pc[p] = "check_wait"
  /\ wait_result[p] = <<-1>>
  /\ err' = [err EXCEPT ![p] = Append(@, "Failed to wait for the child process")]
  /\ Exits(p, 1)
  /\ UNCHANGED <<environ, callVars, old_environ, result, retval, mainVars, image,
                 out, worldVars, nExec, nCalls, callerEnv, execEnv>>

\* Variant of ReportedExitCode: the child's code is passed on.
ReportedExitCodePropagated(childCode) == childCode

\* The code main returns after reporting a child that exited normally (line 67).
ReportedExitCode(childCode) == 0

\* lines 64-68: if (WIFEXITED(status)) { printf("... code %d", WEXITSTATUS(status));
\* return 0; }
ReportExited(p) ==
  /\ pc[p] = "check_wait"
  /\ wait_result[p] # <<-1>>
  /\ WIFEXITED(status[p][1])
  /\ out' = [out EXCEPT ![p] = Append(@, [text |-> "Child process exited with code",
                                           code |-> <<WEXITSTATUS(status[p][1])>>])]
  /\ Exits(p, ReportedExitCode(WEXITSTATUS(status[p][1])))
  /\ UNCHANGED <<environ, callVars, old_environ, result, retval, mainVars, image,
                 err, worldVars, nExec, nCalls, callerEnv, execEnv>>

\* lines 70-72: printf("\nChild process exited with error\n"); return 0;
ReportError(p) ==
  /\ pc[p] = "check_wait"
  /\ wait_result[p] # <<-1>>
  /\ ~WIFEXITED(status[p][1])
  /\ out' = [out EXCEPT ![p] = Append(@, Line("Child process exited with error"))]
  /\ Exits(p, 0)
  /\ UNCHANGED <<environ, callVars, old_environ, result, retval, mainVars, image,
                 err, worldVars, nExec, nCalls, callerEnv, execEnv>>

\* ------------------------------------------------------- specifications
\* One statement of the program text, executed by process p.
ProcStep(p) ==
  \/ PrintPath(p)
  \/ ForkOK(p)
  \/ ForkFail(p)
  \/ Switch(p)
  \/ ForkFailed(p)
  \/ ChildCall(p)
  \/ Save(p)
  \/ Install(p)
  \/ ExecOK(p)
  \/ ExecFail(p)
  \/ Restore(p)
  \/ Return(p)
  \/ ExecFailed(p)
  \/ WaitOK(p)
  \/ WaitFail(p)
  \/ WaitFailed(p)
  \/ ReportExited(p)
  \/ ReportError(p)
  \/ ImageExit(p)
  \/ ImageKilled(p)

Next == \E p \in Procs : ProcStep(p)

Spec == Init /\ [][Next]_vars

\* Both processes are scheduled, and a launched program ends.
FairSpec == Spec /\ \A p \in Procs : WF_vars(ProcStep(p))

\* A driver that calls execvpe repeatedly in one process.
LauncherInit ==
  /\ InitCommon
  /\ pc = [p \in Procs |-> IF p = "parent" THEN "idle" ELSE "none"]

Call(p) ==
  /\ pc[p] \in {"idle", "returned"}
  /\ nCalls < MaxCalls
  /\ nCalls' = nCalls + 1
  /\ \E f \in Files, a \in Argvs, e \in Envps : Enter(p, f, a, e)
  /\ UNCHANGED <<environ, old_environ, result, retval, mainVars, kernelVars, ioVars,
                 worldVars, nExec, execEnv>>

LauncherNext ==
  \/ Call("parent")
  \/ Save("parent")
  \/ Install("parent")
  \/ ExecOK("parent")
  \/ ExecFail("parent")
  \/ Restore("parent")
  \/ Return("parent")
  \/ ImageExit("parent")
  \/ ImageKilled("parent")

LauncherSpec == LauncherInit /\ [][LauncherNext]_vars

\* ---------------------------------------------------------------- claims
Terminated(p) == pc[p] = "terminated"

Launched(p) == image[p].prog \notin {"main", "none"}

InExecvpe(p) == pc[p] \in {"save", "install", "exec", "restore", "return"}

Range(f) == {f[i] : i \in DOMAIN f}

\* The parent's report of the child on stdout, when it has made one.
Reports(p) == {m \in Range(out[p]) : m.text = "Child process exited with code"
                                     \/ m.text = "Child process exited with error"}

WaitSucceeded(p) == wait_result[p] # << >> /\ wait_result[p] # <<-1>>

\* C1: when the exec attempt inside execvpe failed, execvpe returns -1, and from
\* the restore on (at the return and after it) environ is the binding it was
\* when execvpe was entered; it is the replacement only if the caller passed
\* its own binding as the replacement.
C1_FailureRestoresAndReturnsMinusOne ==
  \A p \in Procs :
    /\ pc[p] \in {"return", "returned"} =>
         /\ result[p] = <<-1>>
         /\ environ[p] = callerEnv[p]
         /\ (envp[p] # callerEnv[p] => environ[p] # envp[p])
    /\ pc[p] = "returned" => retval[p] = <<-1>>

C1_Witness ==
  /\ pc["parent"] = "returned"
  /\ retval["parent"] = <<-1>>
  /\ envp["parent"] = "envp_opt"
  /\ file["parent"] = "nosuchprog"
  /\ environ["parent"] = callerEnv["parent"]

\* C2: once the exec attempt has succeeded the old image runs nothing more: the
\* process is the launched program or has terminated, execvpe has returned
\* nothing, nothing was written to stderr and environ was not restored; the
\* restore and the return are reached only with result -1 in the old image.
C2_SuccessNeverReturns ==
  \A p \in Procs :
    /\ Launched(p) =>
         /\ pc[p] \in {"image", "terminated"}
         /\ result[p] = << >> /\ retval[p] = << >>
         /\ err[p] = << >>
         /\ environ[p] = envp[p]
    /\ pc[p] \in {"restore", "return", "returned"} =>
         result[p] = <<-1>> /\ ~Launched(p)

C2_Witness ==
  /\ Launched("child")
  /\ Terminated("child")
  /\ Terminated("parent")
  /\ environ["child"] = new_envp

\* C3: between the calls of a sequence of failing execvpe calls, and after the
\* last of them, environ is the binding the program started with.
C3_FailingCallsKeepOriginalBinding ==
  pc["parent"] \in {"idle", "returned"} => environ["parent"] = env0

C3_Witness ==
  /\ pc["parent"] = "returned"
  /\ nCalls = 2 /\ nExec = 2
  /\ envp["parent"] = "envp_empty"
  /\ environ["parent"] = env0

\* C4: when execvp is invoked environ is the replacement envp and the saved
\* binding is the caller's; a launched program gets the named program, the
\* given arguments and exactly the strings of envp, none of them a string of
\* the original environment; main's child gets the one entry PATH=/bin:/usr/bin.
C4_ExecSeesReplacement ==
  /\ \A p \in Procs :
       /\ pc[p] = "exec" => environ[p] = envp[p] /\ old_environ[p] = callerEnv[p]
       /\ execEnv[p] # NullAddr => execEnv[p] = envp[p]
       /\ Launched(p) =>
            /\ image[p] = [prog |-> file[p], argv |-> argv[p], env |-> Mem[envp[p]]]
            /\ Range(image[p].env) \cap Range(Mem[env0]) = {}
  /\ Launched("child") =>
       image["child"] = [prog |-> "env", argv |-> <<"env">>,
                         env |-> <<"PATH=/bin:/usr/bin">>]

C4_Witness ==
  /\ pc["child"] = "image"
  /\ image["child"].env = <<"PATH=/bin:/usr/bin">>
  /\ env0 = "env_login"

\* C5: fork, the exec attempt and wait are each made at most once.  After a
\* failed fork the process calls neither the launcher nor wait and exits with
\* 1; after a failed exec attempt the child exits with 1; after a failed wait
\* the parent reports no child status and exits with 1.
C5_FailuresAreTerminal ==
  /\ nFork <= 1 /\ nExec <= 1 /\ nWait <= 1
  /\ pid["parent"] = <<-1>> =>
       /\ pc["child"] = "none"
       /\ nExec = 0 /\ nWait = 0
       /\ pc["parent"] \in {"switch", "fork_failed", "terminated"}
       /\ Terminated("parent") => exitCode["parent"] = <<1>>
  /\ result["child"] = <<-1>> =>
       /\ pc["child"] \in {"restore", "return", "returned", "terminated"}
       /\ Terminated("child") => exitCode["child"] = <<1>>
  /\ wait_result["parent"] = <<-1>> =>
       /\ pc["parent"] \in {"check_wait", "terminated"}
       /\ Reports("parent") = {}
       /\ Terminated("parent") => exitCode["parent"] = <<1>>

C5_Witness ==
  /\ wait_result["parent"] = <<-1>>
  /\ result["child"] = <<-1>>
  /\ Terminated("parent") /\ Terminated("child")
  /\ nFork = 1 /\ nExec = 1 /\ nWait = 1

\* A further reachable case of C5: the failed fork.
C5_WitnessForkFailed ==
  /\ pid["parent"] = <<-1>>
  /\ Terminated("parent")

\* C6: when wait has succeeded the child has terminated and status is its wait
\* status; a report is made only then, and the code printed for a child that
\* exited is the code the child exited with.
C6_ReportAfterChildTermination ==
  /\ WaitSucceeded("parent") =>
       Terminated("child") /\ status["parent"] = wstatus["child"]
  /\ \A m \in Reports("parent") :
       /\ WaitSucceeded("parent") /\ Terminated("child")
       /\ m.text = "Child process exited with code" => m.code = exitCode["child"]
       /\ m.text = "Child process exited with error" => exitCode["child"] = << >>

C6_Witness ==
  /\ Launched("child")
  /\ [text |-> "Child process exited with code", code |-> <<127>>]
       \in Reports("parent")
  /\ exitCode["child"] = <<127>>

\* C7 as stated: once the exec attempt has failed in the child and the parent
\* has terminated, the parent has reported the child's exit code 1.
C7_Original ==
  (result["child"] = <<-1>> /\ Terminated("parent")) =>
    [text |-> "Child process exited with code", code |-> <<1>>] \in Reports("parent")

\* C7, amended: when the exec attempt has failed in the child, the launcher
\* returns -1 there, the child writes its message and exits with code 1 (wait
\* status 256), and a parent whose wait succeeded reports exit code 1.
C7_FailurePathReported ==
  result["child"] = <<-1>> =>
    /\ pc["child"] \in {"restore", "return", "returned", "terminated"}
    /\ Terminated("child") =>
         /\ retval["child"] = <<-1>>
         /\ err["child"] = <<"Failed to execute execvpe">>
         /\ exitCode["child"] = <<1>> /\ wstatus["child"] = <<256>>
    /\ (Terminated("parent") /\ WaitSucceeded("parent")) =>
         Reports("parent") =
           {[text |-> "Child process exited with code", code |-> <<1>>]}

C7_Witness ==
  /\ result["child"] = <<-1>>
  /\ Terminated("child") /\ Terminated("parent")
  /\ [text |-> "Child process exited with code", code |-> <<1>>] \in Reports("parent")

\* C8: the parent never runs execvpe, and its environ is in every state the
\* binding the program started with.
C8_ParentEnvironUntouched ==
  /\ environ["parent"] = env0
  /\ ~InExecvpe("parent") /\ pc["parent"] # "returned"
  /\ callerEnv["parent"] = NullAddr /\ ~Launched("parent")

C8_Witness ==
  /\ pc["child"] = "exec"
  /\ environ["child"] = new_envp
  /\ pc["parent"] = "wait"
  /\ environ["parent"] = env0

AllDone == Terminated("parent") /\ pc["child"] \in {"none", "terminated"}

ParentPastWait == pc["parent"] = "check_wait" \/ wait_result["parent"] # << >>

\* C9: with both processes scheduled and a launched program that ends, every
\* run of main reaches the state where the parent has terminated and the child
\* was never created or has terminated; and the parent is never past its wait
\* (checking the result, reporting or exited after it) while the child runs.
C9_MainTerminates ==
  /\ <>[]AllDone
  /\ [](ParentPastWait => Terminated("child"))

C9_Witness ==
  /\ AllDone
  /\ Launched("child")
  /\ Reports("parent") # {}

\* C10: a parent whose wait succeeded exits with code 0, whatever the child's
\* status was.
C10_ParentExitsZeroAfterWait ==
  (Terminated("parent") /\ WaitSucceeded("parent")) =>
    exitCode["parent"] = <<0>> /\ wstatus["parent"] = <<0>>

C10_Witness ==
  /\ Terminated("parent") /\ WaitSucceeded("parent")
  /\ exitCode["child"] = <<1>>
  /\ result["child"] = <<-1>>
  /\ exitCode["parent"] = <<0>>

\* A further reachable case of C10: the child died from a signal.
C10_WitnessKilled ==
  /\ Terminated("parent") /\ WaitSucceeded("parent")
  /\ ~WIFEXITED(status["parent"][1])
  /\ exitCode["parent"] = <<0>>

====
